---- MODULE Spec2Model ----
(***************************************************************************)
(* A model of disasm-util's parser (src/src/disasm.rs): Disasm::from_lines *)
(* reads the lines of an objdump listing one at a time, builds the tree    *)
(* sections -> symbols -> instructions, sorts it and renders it.           *)
(*                                                                         *)
(* A Rust String is modelled as a sequence of one-character strings, so    *)
(* that trimming, splitting, the three regular expressions, the name       *)
(* comparison and the rendering are computed character by character.  A    *)
(* character that cannot be written in a string here (U+2000 and above) is *)
(* the string that names its code point, "U+2003" for the em space.        *)
(***************************************************************************)
EXTENDS Integers, Sequences, FiniteSets, TLC

(***************************************************************************)
(* Characters.                                                             *)
(***************************************************************************)

\* The printable ASCII characters in byte order, from 0x20 to 0x7e (the
\* grave accent, 0x60, cannot be written in a string here: its place is kept
\* by the empty string, which is no character).
Ascii ==
    <<" ", "!", "\"", "#", "$", "%", "&", "'", "(", ")", "*", "+", ",", "-",
      ".", "/", "0", "1", "2", "3", "4", "5", "6", "7", "8", "9", ":", ";",
      "<", "=", ">", "?", "@", "A", "B", "C", "D", "E", "F", "G", "H", "I",
      "J", "K", "L", "M", "N", "O", "P", "Q", "R", "S", "T", "U", "V", "W",
      "X", "Y", "Z", "[", "\\", "]", "^", "_", "", "a", "b", "c", "d", "e",
      "f", "g", "h", "i", "j", "k", "l", "m", "n", "o", "p", "q", "r", "s",
      "t", "u", "v", "w", "x", "y", "z", "{", "|", "}", "~">>

\* The characters of the Unicode property White_Space beyond ASCII, each with
\* its code point: U+0085, U+00A0 and U+1680 stand as the raw character
\* between the quotes, the others by the name of their code point.
White_Space ==
    <<<<"", 133>>, <<" ", 160>>, <<" ", 5760>>,
      <<"U+2000", 8192>>, <<"U+2001", 8193>>, <<"U+2002", 8194>>,
      <<"U+2003", 8195>>, <<"U+2004", 8196>>, <<"U+2005", 8197>>,
      <<"U+2006", 8198>>, <<"U+2007", 8199>>, <<"U+2008", 8200>>,
      <<"U+2009", 8201>>, <<"U+200A", 8202>>, <<"U+2028", 8232>>,
      <<"U+2029", 8233>>, <<"U+202F", 8239>>, <<"U+205F", 8287>>,
      <<"U+3000", 12288>>>>

\* The code point of a character; the order of code points is the order of
\* the UTF-8 bytes that String::cmp goes by.
Ord(c) ==
    CASE c = "\t" -> 9
      [] c = "\n" -> 10
      [] c = "" -> 11
      [] c = "\f" -> 12
      [] c = "\r" -> 13
      [] \E i \in 1..Len(White_Space) : White_Space[i][1] = c ->
            White_Space[CHOOSE i \in 1..Len(White_Space) : White_Space[i][1] = c][2]
      [] OTHER -> 31 + (CHOOSE i \in 1..Len(Ascii) : Ascii[i] = c)

\* [[:space:]] of the regex crate, the ASCII class: space,
\* tab, line feed, vertical tab (the raw character 0x0b), form feed, carriage
\* return.
IsSpace(c) == c \in {" ", "\t", "\n", "", "\f", "\r"}

\* char::is_whitespace, which str::trim goes by: the 25 characters of
\* White_Space, the six of ASCII and those beyond.  The regular expressions
\* take only the six of ASCII as [[:space:]].
is_whitespace(c) ==
    IsSpace(c) \/ \E i \in 1..Len(White_Space) : White_Space[i][1] = c

\* [[:lower:]]
IsLower(c) == Ord(c) >= Ord("a") /\ Ord(c) <= Ord("z")

\* [[:digit:]]
IsDigit(c) == Ord(c) >= Ord("0") /\ Ord(c) <= Ord("9")

\* [[:alnum:]]
IsAlnum(c) == IsLower(c) \/ IsDigit(c) \/ (Ord(c) >= Ord("A") /\ Ord(c) <= Ord("Z"))

(***************************************************************************)
(* Strings: the operations of str the parser uses.                         *)
(***************************************************************************)

\* s[from..] (1-based, from may be Len(s) + 1)
From(s, from) == SubSeq(s, from, Len(s))

\* str::trim
trim(s) ==
    LET keep == {i \in 1..Len(s) : ~is_whitespace(s[i])}
    IN  IF keep = {} THEN <<>>
        ELSE SubSeq(s, CHOOSE i \in keep : \A j \in keep : i <= j,
                       CHOOSE i \in keep : \A j \in keep : i >= j)

\* str::starts_with
starts_with(s, p) == Len(s) >= Len(p) /\ SubSeq(s, 1, Len(p)) = p

\* str::ends_with
ends_with(s, p) == Len(s) >= Len(p) /\ SubSeq(s, Len(s) - Len(p) + 1, Len(s)) = p

\* The position of the first occurrence of character c in s, 0 if none.
find(s, c) ==
    LET at == {i \in 1..Len(s) : s[i] = c}
    IN  IF at = {} THEN 0 ELSE CHOOSE i \in at : \A j \in at : i <= j

\* Ord::cmp on two Strings is "Less": lexicographic order of the bytes.
RECURSIVE cmp_less(_, _)
cmp_less(a, b) ==
    IF b = <<>> THEN FALSE
    ELSE IF a = <<>> THEN TRUE
    ELSE IF Ord(a[1]) # Ord(b[1]) THEN Ord(a[1]) < Ord(b[1])
    ELSE cmp_less(Tail(a), Tail(b))

\* str::split('\n') : the pieces between the separators, empty ones included
RECURSIVE split(_, _)
split(s, c) ==
    LET i == find(s, c)
    IN  IF i = 0 THEN <<s>>
        ELSE <<SubSeq(s, 1, i - 1)>> \o split(From(s, i + 1), c)

\* The concatenation of a sequence of strings (join(""), and a fold with +).
RECURSIVE concat(_)
concat(ss) == IF ss = <<>> THEN <<>> ELSE Head(ss) \o concat(Tail(ss))

\* str::split_once(c): <<TRUE, before, after>> at the first c, <<FALSE>> if none
split_once(s, c) ==
    LET i == find(s, c)
    IN  IF i = 0 THEN <<FALSE>>
        ELSE <<TRUE, SubSeq(s, 1, i - 1), From(s, i + 1)>>

\* str::strip_prefix(p): <<TRUE, rest>> or <<FALSE>>
strip_prefix(s, p) ==
    IF starts_with(s, p) THEN <<TRUE, From(s, Len(p) + 1)>> ELSE <<FALSE>>

\* The number of leading [[:space:]] characters of s.
RECURSIVE leading_spaces(_)
leading_spaces(s) ==
    IF s # <<>> /\ IsSpace(s[1]) THEN 1 + leading_spaces(Tail(s)) ELSE 0

\* The number of leading characters of s that are not [[:space:]].
RECURSIVE leading_nonspaces(_)
leading_nonspaces(s) ==
    IF s # <<>> /\ ~IsSpace(s[1]) THEN 1 + leading_nonspaces(Tail(s)) ELSE 0

all_spaces(s) == \A i \in 1..Len(s) : IsSpace(s[i])

(***************************************************************************)
(* Results: Rust's Result<T, String>.                                      *)
(***************************************************************************)

Ok(v) == [ok |-> TRUE, val |-> v]
Err(m) == [ok |-> FALSE, err |-> m]

\* "Error, the file does not contain any text"
MsgEmptyInput == <<"E", "r", "r", "o", "r", ",", " ", "t", "h", "e", " ", "f", "i", "l", "e", " ", "d", "o", "e", "s", " ", "n", "o", "t", " ", "c", "o", "n", "t", "a", "i", "n", " ", "a", "n", "y", " ", "t", "e", "x", "t">>  \* "Error, the file does not contain any text"

\* "Incorrect format for the first line"
MsgFirstLine == <<"I", "n", "c", "o", "r", "r", "e", "c", "t", " ", "f", "o", "r", "m", "a", "t", " ", "f", "o", "r", " ", "t", "h", "e", " ", "f", "i", "r", "s", "t", " ", "l", "i", "n", "e">>  \* "Incorrect format for the first line"

\* "Attempted to add a symbol without first defining a section"
MsgSymbolNoSection == <<"A", "t", "t", "e", "m", "p", "t", "e", "d", " ", "t", "o", " ", "a", "d", "d", " ", "a", " ", "s", "y", "m", "b", "o", "l", " ", "w", "i", "t", "h", "o", "u", "t", " ", "f", "i", "r", "s", "t", " ", "d", "e", "f", "i", "n", "i", "n", "g", " ", "a", " ", "s", "e", "c", "t", "i", "o", "n">>  \* "Attempted to add a symbol without first defining a section"

\* "Attempted to add an instruction without first defining a section"
MsgInstructionNoSection == <<"A", "t", "t", "e", "m", "p", "t", "e", "d", " ", "t", "o", " ", "a", "d", "d", " ", "a", "n", " ", "i", "n", "s", "t", "r", "u", "c", "t", "i", "o", "n", " ", "w", "i", "t", "h", "o", "u", "t", " ", "f", "i", "r", "s", "t", " ", "d", "e", "f", "i", "n", "i", "n", "g", " ", "a", " ", "s", "e", "c", "t", "i", "o", "n">>  \* "Attempted to add an instruction without first defining a section"

\* "Attempted to add an instruction without first defining a symbol"
MsgInstructionNoSymbol == <<"A", "t", "t", "e", "m", "p", "t", "e", "d", " ", "t", "o", " ", "a", "d", "d", " ", "a", "n", " ", "i", "n", "s", "t", "r", "u", "c", "t", "i", "o", "n", " ", "w", "i", "t", "h", "o", "u", "t", " ", "f", "i", "r", "s", "t", " ", "d", "e", "f", "i", "n", "i", "n", "g", " ", "a", " ", "s", "y", "m", "b", "o", "l">>  \* "Attempted to add an instruction without first defining a symbol"

\* format!("Unrecognized format for the following line: '{line}'")
MsgUnrecognized(line) ==
    <<"U", "n", "r", "e", "c", "o", "g", "n", "i", "z", "e", "d", " ", "f", "o", "r", "m", "a", "t", " ", "f", "o", "r", " ", "t", "h", "e", " ", "f", "o", "l", "l", "o", "w", "i", "n", "g", " ", "l", "i", "n", "e", ":", " ", "'">> \o line \o <<"'">>

(***************************************************************************)
(* The tree: Instruction, Symbol, Section.                                 *)
(***************************************************************************)

Instruction_new(opcode, operands, comment) ==
    [opcode |-> opcode, operands |-> operands, comment |-> comment]

\* str::rsplit_once(c): <<TRUE, before, after>> at the last c, <<FALSE>> if none
rsplit_once(s, c) ==
    LET at == {i \in 1..Len(s) : s[i] = c}
    IN  IF at = {} THEN <<FALSE>>
        ELSE LET i == CHOOSE x \in at : \A y \in at : y <= x
             IN  <<TRUE, SubSeq(s, 1, i - 1), From(s, i + 1)>>

\* impl From<&str> for Instruction: the comment is what follows the first '#',
\* the operands what follows the last space of the trimmed rest.
Instruction_from(string) ==
    LET hash == split_once(string, "#")
        leftover_string == IF hash[1] THEN hash[2] ELSE string
        comment == IF hash[1] THEN hash[3] ELSE <<>>
        space == rsplit_once(trim(leftover_string), " ")
        opcode == IF space[1] THEN space[2] ELSE leftover_string
        operands == IF space[1] THEN space[3] ELSE <<>>
    IN  [opcode |-> trim(opcode), operands |-> operands, comment |-> trim(comment)]

\* Symbol::new of symbol.rs: the address and the name are stored, both are
\* part of the derived equality.
Symbol_new(addr, name) == [addr |-> addr, name |-> name, instructions |-> <<>>]

\* Symbol::new as disasm.rs and the tests of section.rs call it, with the name
\* alone: the listing has no addresses and the symbol holds none.
Symbol_new_name_only(name) == Symbol_new(<<>>, name)

Symbol_add_instruction(symbol, instruction) ==
    [symbol EXCEPT !.instructions = Append(@, instruction)]

Section_new(name) == [name |-> name, symbols |-> <<>>]

Section_add_symbol(section, symbol) ==
    [section EXCEPT !.symbols = Append(@, symbol)]

\* Section_add_instruction with the missing symbol overlooked: the instruction
\* is dropped and the call succeeds.
Section_add_instruction_dropping(section, instruction) ==
    IF section.symbols = <<>> THEN Ok(section)
    ELSE Ok([section EXCEPT !.symbols[Len(section.symbols)] =
                                Symbol_add_instruction(@, instruction)])

\* Section_add_instruction with symbols.first_mut() in place of last_mut().
Section_add_instruction_first_symbol(section, instruction) ==
    IF section.symbols = <<>> THEN Err(MsgInstructionNoSymbol)
    ELSE Ok([section EXCEPT !.symbols[1] = Symbol_add_instruction(@, instruction)])

\* Ok(the section with the instruction in its last symbol), or Err when it
\* has no symbol.
Section_add_instruction(section, instruction) ==
    IF section.symbols = <<>> THEN Err(MsgInstructionNoSymbol)
    ELSE Ok([section EXCEPT !.symbols[Len(section.symbols)] =
                                Symbol_add_instruction(@, instruction)])

\* Vec::sort_by with the comparison of names: the stable sort. insert puts x
\* after every element that is not greater than it.
\* The insertion with x put before the elements of equal name.
RECURSIVE insert_by_name_before_equal(_, _)
insert_by_name_before_equal(sorted, x) ==
    IF sorted = <<>> THEN <<x>>
    ELSE IF ~cmp_less(sorted[1].name, x.name) THEN <<x>> \o sorted
    ELSE <<sorted[1]>> \o insert_by_name_before_equal(Tail(sorted), x)

RECURSIVE insert_by_name(_, _)
insert_by_name(sorted, x) ==
    IF sorted = <<>> THEN <<x>>
    ELSE IF cmp_less(x.name, sorted[1].name) THEN <<x>> \o sorted
    ELSE <<sorted[1]>> \o insert_by_name(Tail(sorted), x)

\* An unstable sort: the elements are inserted from the last to the first, so
\* those of equal name come out in reverse order.
RECURSIVE sort_by_name_unstable(_)
sort_by_name_unstable(v) ==
    IF v = <<>> THEN <<>>
    ELSE insert_by_name(sort_by_name_unstable(Tail(v)), v[1])

RECURSIVE sort_by_name(_)
sort_by_name(v) ==
    IF v = <<>> THEN <<>>
    ELSE insert_by_name(sort_by_name(SubSeq(v, 1, Len(v) - 1)), v[Len(v)])

Section_sort_symbols(section) ==
    [section EXCEPT !.symbols = sort_by_name(@)]

(***************************************************************************)
(* Display.                                                                *)
(***************************************************************************)

\* write!(f, "{}\n", self.opcode)
Instruction_fmt(instruction) == instruction.opcode \o <<"\n">>

\* Each instruction after four spaces, joined, after "<name>:\n".
Symbol_fmt(symbol) ==
    symbol.name \o <<":", "\n">> \o  \* ":\n"
    concat([i \in 1..Len(symbol.instructions) |->
               <<" ", " ", " ", " ">> \o Instruction_fmt(symbol.instructions[i])])  \* "    "

\* The closure without the tests for an empty piece.
indent_piece_always(x) == <<" ", " ", " ", " ">> \o x \o <<"\n">>

\* The closure of the second fold: four spaces and a line break around every
\* piece that is not empty.
indent_piece(x) ==
    (IF x # <<>> THEN <<" ", " ", " ", " ">> ELSE <<>>) \o x \o  \* "    "
    (IF x # <<>> THEN <<"\n">> ELSE <<>>)

Section_fmt(section) ==
    LET symbols_str ==
            concat([i \in 1..Len(section.symbols) |-> Symbol_fmt(section.symbols[i])])
        pieces == split(symbols_str, "\n")
    IN  section.name \o <<":", "\n">> \o  \* ":\n"
        concat([i \in 1..Len(pieces) |-> indent_piece(pieces[i])])

Disasm_fmt(sections) ==
    concat([i \in 1..Len(sections) |-> Section_fmt(sections[i])])

(***************************************************************************)
(* The three regular expressions of process_other_line.  Each gives        *)
(* <<TRUE, captures...>> for the match the regex crate reports (the first  *)
(* in the order of a backtracking search), or <<FALSE>>.                   *)
(***************************************************************************)

SectionPrefix == <<"D", "i", "s", "a", "s", "s", "e", "m", "b", "l", "y", " ", "o", "f", " ", "s", "e", "c", "t", "i", "o", "n", " ">>  \* "Disassembly of section "

\* ^Disassembly of section (?P<sec_name>.[[:alnum:].]+):$
RE_SECTION(line) ==
    LET sec_name == SubSeq(line, Len(SectionPrefix) + 1, Len(line) - 1)
    IN  IF /\ starts_with(line, SectionPrefix)
           /\ Len(line) > Len(SectionPrefix)
           /\ line[Len(line)] = ":"
           /\ Len(sec_name) >= 2
           /\ sec_name[1] # "\n"
           /\ \A i \in 2..Len(sec_name) : IsAlnum(sec_name[i]) \/ sec_name[i] = "."
        THEN <<TRUE, sec_name>>
        ELSE <<FALSE>>

\* RE_SYMBOL without the final $: ^(?P<sym_name><.+>):
RE_SYMBOL_unanchored(line) ==
    LET ends == {b \in 4..Len(line) :
                    /\ line[b - 1] = ">" /\ line[b] = ":"
                    /\ \A i \in 2..(b - 2) : line[i] # "\n"}
    IN  IF line # <<>> /\ line[1] = "<" /\ ends # {}
        THEN <<TRUE, SubSeq(line, 1, (CHOOSE b \in ends : \A c \in ends : c <= b) - 1)>>
        ELSE <<FALSE>>

\* ^(?P<sym_name><.+>):$
RE_SYMBOL(line) ==
    IF /\ Len(line) >= 4
       /\ line[1] = "<"
       /\ line[Len(line) - 1] = ">"
       /\ line[Len(line)] = ":"
       /\ \A i \in 2..(Len(line) - 2) : line[i] # "\n"
    THEN <<TRUE, SubSeq(line, 1, Len(line) - 1)>>
    ELSE <<FALSE>>

\* ([[:space:]]+\#(?P<comment>.*))?? [[:space:]]* $  on the text t, comment
\* taken: <<TRUE, comment>> or <<FALSE>>
comment_tail(t) ==
    LET n == leading_spaces(t)
        after == From(t, n + 2)
        nl == find(after, "\n")
        comment == IF nl = 0 THEN after ELSE SubSeq(after, 1, nl - 1)
    IN  IF n >= 1 /\ Len(t) > n /\ t[n + 1] = "#"
           /\ all_spaces(From(after, Len(comment) + 1))
        THEN <<TRUE, comment>>
        ELSE <<FALSE>>

\* What follows the opcode, in the order the lazy groups are tried: no
\* operands and no comment, a comment alone, operands alone, both.
\* <<TRUE, operands, comment>> or <<FALSE>>
instruction_tail(t) ==
    LET n == leading_spaces(t)
        m == leading_nonspaces(From(t, n + 1))
        operands == SubSeq(t, 1, n + m)
        rest == From(t, n + m + 1)
    IN  IF all_spaces(t) THEN <<TRUE, <<>>, <<>>>>
        ELSE IF comment_tail(t)[1] THEN <<TRUE, <<>>, comment_tail(t)[2]>>
        ELSE IF n >= 1 /\ m >= 1 /\ all_spaces(rest) THEN <<TRUE, operands, <<>>>>
        ELSE IF n >= 1 /\ m >= 1 /\ comment_tail(rest)[1]
             THEN <<TRUE, operands, comment_tail(rest)[2]>>
        ELSE <<FALSE>>

\* The number of leading characters of s in [[[:lower:]][[:digit:]][[:space:]]].
RECURSIVE leading_opcode(_)
leading_opcode(s) ==
    IF s # <<>> /\ (IsLower(s[1]) \/ IsDigit(s[1]) \/ IsSpace(s[1]))
    THEN 1 + leading_opcode(Tail(s)) ELSE 0

\* RE_INSTRUCTION without the [[:space:]] that opens it.
RE_INSTRUCTION_no_leading_space(line) ==
    LET lens == {k \in 0..leading_opcode(line) :
                    instruction_tail(From(line, k + 1))[1]}
    IN  IF lens = {} THEN <<FALSE>>
        ELSE LET k == CHOOSE x \in lens : \A y \in lens : y <= x
                 tail == instruction_tail(From(line, k + 1))
             IN  <<TRUE, SubSeq(line, 1, k), tail[2], tail[3]>>

\* ^ [[:space:]] (?P<opcode>[[[:lower:]][[:digit:]][[:space:]]]*)
\*   (?P<operands>[[:space:]]+[^[[:space:]]]+)??
\*   ([[:space:]]+\#(?P<comment>.*))?? [[:space:]]* $
\* The opcode is greedy: the longest one the rest of the line allows.
\* <<TRUE, opcode, operands, comment>> or <<FALSE>>
RE_INSTRUCTION(line) ==
    IF line = <<>> \/ ~IsSpace(line[1]) THEN <<FALSE>>
    ELSE LET body == Tail(line)
             lens == {k \in 0..leading_opcode(body) :
                         instruction_tail(From(body, k + 1))[1]}
         IN  IF lens = {} THEN <<FALSE>>
             ELSE LET k == CHOOSE x \in lens : \A y \in lens : y <= x
                      tail == instruction_tail(From(body, k + 1))
                  IN  <<TRUE, SubSeq(body, 1, k), tail[2], tail[3]>>

(***************************************************************************)
(* Disasm: the methods from_lines calls.                                   *)
(***************************************************************************)

\* process_first_line with the prefix written without its final space.
process_first_line_short_prefix(line) ==
    LET parts == split_once(line, ":")
    IN  IF ~parts[1] THEN Err(MsgFirstLine)
        ELSE LET stripped == strip_prefix(trim(parts[3]), <<"f", "i", "l", "e", " ", "f", "o", "r", "m", "a", "t">>)  \* "file format"
             IN  IF ~stripped[1] THEN Err(MsgFirstLine)
                 ELSE Ok(<<parts[2], stripped[2]>>)

\* Ok(<<file_name, file_format>>) or Err.  file_name is assigned before the
\* prefix is looked at: name_after_first_line gives the field in both cases.
process_first_line(line) ==
    LET parts == split_once(line, ":")
    IN  IF ~parts[1] THEN Err(MsgFirstLine)
        ELSE LET stripped == strip_prefix(trim(parts[3]), <<"f", "i", "l", "e", " ", "f", "o", "r", "m", "a", "t", " ">>)  \* "file format "
             IN  IF ~stripped[1] THEN Err(MsgFirstLine)
                 ELSE Ok(<<parts[2], stripped[2]>>)

name_after_first_line(old, line) ==
    IF split_once(line, ":")[1] THEN split_once(line, ":")[2] ELSE old

\* add_section that keeps one section per name: a name already there is not
\* added again.
add_section_once_per_name(secs, section) ==
    IF \E i \in 1..Len(secs) : secs[i].name = section.name THEN secs
    ELSE Append(secs, section)

add_section(secs, section) == Append(secs, section)

\* add_symbol that opens an unnamed section when there is none.
add_symbol_opening_section(secs, symbol) ==
    IF secs = <<>> THEN Ok(<<Section_add_symbol(Section_new(<<>>), symbol)>>)
    ELSE Ok([secs EXCEPT ![Len(secs)] = Section_add_symbol(@, symbol)])

\* add_symbol with sections.first_mut() in place of last_mut().
add_symbol_first_section(secs, symbol) ==
    IF secs = <<>> THEN Err(MsgSymbolNoSection)
    ELSE Ok([secs EXCEPT ![1] = Section_add_symbol(@, symbol)])

add_symbol(secs, symbol) ==
    IF secs = <<>> THEN Err(MsgSymbolNoSection)
    ELSE Ok([secs EXCEPT ![Len(secs)] = Section_add_symbol(@, symbol)])

\* add_instruction that reports a missing section as a missing symbol.
add_instruction_one_message(secs, instruction) ==
    IF secs = <<>> THEN Err(MsgInstructionNoSymbol)
    ELSE LET added == Section_add_instruction(secs[Len(secs)], instruction)
         IN  IF added.ok THEN Ok([secs EXCEPT ![Len(secs)] = added.val])
             ELSE Err(added.err)

add_instruction(secs, instruction) ==
    IF secs = <<>> THEN Err(MsgInstructionNoSection)
    ELSE LET added == Section_add_instruction(secs[Len(secs)], instruction)
         IN  IF added.ok THEN Ok([secs EXCEPT ![Len(secs)] = added.val])
             ELSE Err(added.err)

\* Ok(the sections after the line) or Err
process_other_line(secs, line) ==
    IF RE_SECTION(line)[1]
    THEN Ok(add_section(secs, Section_new(RE_SECTION(line)[2])))
    ELSE IF RE_SYMBOL(line)[1]
    THEN add_symbol(secs, Symbol_new_name_only(RE_SYMBOL(line)[2]))
    ELSE IF RE_INSTRUCTION(line)[1]
    THEN LET cap == RE_INSTRUCTION(line)
         IN  add_instruction(secs,
                 Instruction_new(trim(cap[2]), trim(cap[3]), trim(cap[4])))
    ELSE Err(MsgUnrecognized(line))

\* sort_sections without the loop over the sections' symbols.
sort_sections_outer_only(secs) == sort_by_name(secs)

sort_sections(secs) ==
    sort_by_name([i \in 1..Len(secs) |-> Section_sort_symbols(secs[i])])

\* The filter written without trim(): only the empty line is dropped.
is_blank_no_trim(line) == line = <<>>

\* The filter with only the space taken as whitespace.
is_blank_spaces_only(line) == \A i \in 1..Len(line) : line[i] = " "

\* The filter of from_lines keeps the lines with !line.trim().is_empty().
is_blank(line) == trim(line) = <<>>

(***************************************************************************)
(* The inputs.  CoreLines are the lines an input is built of; one line of  *)
(* ProbeLines may end it.  An input has at most MaxLines lines.            *)
(***************************************************************************)

MaxLines == 5

BlankLine == <<>>
HeaderLine == <<"f", ":", " ", "f", "i", "l", "e", " ", "f", "o", "r", "m", "a", "t", " ", "x">>  \* "f: file format x"
SectionAb == <<"D", "i", "s", "a", "s", "s", "e", "m", "b", "l", "y", " ", "o", "f", " ", "s", "e", "c", "t", "i", "o", "n", " ", "a", "b", ":">>  \* "Disassembly of section ab:"
SectionAa == <<"D", "i", "s", "a", "s", "s", "e", "m", "b", "l", "y", " ", "o", "f", " ", "s", "e", "c", "t", "i", "o", "n", " ", "a", "a", ":">>  \* "Disassembly of section aa:"
SymbolB == <<"<", "b", ">", ":">>  \* "<b>:"
SymbolA == <<"<", "a", ">", ":">>  \* "<a>:"
InstructionB == <<"\t", "b">>  \* "\tb"
InstructionA == <<" ", "a", " ", "1", ",", "2", " ", "#", " ", "c">>  \* " a 1,2 # c"

CoreLines ==
    {BlankLine, HeaderLine, SectionAb, SectionAa, SymbolB, SymbolA,
     InstructionB, InstructionA}

\* the last four hold white space beyond ASCII, which trim strips and the
\* regular expressions do not take as [[:space:]]: the next line character
\* U+0085, the ogham space mark U+1680, the em space U+2003, the ideographic
\* space U+3000 after the no-break space U+00A0
BlankProbes ==
    {<<" ", "\t">>,  \* " \t"
     <<"">>,  \* "\x0b"
     <<"">>,  \* "\u0085"
     <<" ">>,  \* "\u1680"
     <<" ", "\t", "U+2003">>,  \* " \t\u2003"
     <<" ", "U+3000">>}  \* "\u00a0\u3000"

HeaderProbes ==
    {<<" ", "f", " ", ":", " ", " ", "f", "i", "l", "e", " ", "f", "o", "r", "m", "a", "t", " ", " ", "x", " ", "y", " ">>,  \* " f :  file format  x y "
     <<":", "f", "i", "l", "e", " ", "f", "o", "r", "m", "a", "t", " ", "x">>,  \* ":file format x"
     <<"a", ":", "b", ":", " ", "f", "i", "l", "e", " ", "f", "o", "r", "m", "a", "t", " ", "x">>,  \* "a:b: file format x"
     <<"g", "a", "r", "b", "a", "g", "e", " ", "t", "e", "x", "t">>,  \* "garbage text"
     <<"f", ":", " ", "f", "o", "r", "m", "a", "t", " ", "x">>,  \* "f: format x"
     <<"f", ":", " ", "f", "i", "l", "e", " ", "f", "o", "r", "m", "a", "t", " ">>,  \* "f: file format "
     <<"f", " ", "f", "i", "l", "e", " ", "f", "o", "r", "m", "a", "t", " ", "x">>,  \* "f file format x"
     <<"f", ":", " ", "f", "i", "l", "e", " ", "f", "o", "r", "m", "a", "t", " ", "x", "">>,  \* "f:\u00a0file format x\u0085"
     <<"f", ":", "U+2028", "f", "i", "l", "e", " ", "f", "o", "r", "m", "a", "t", " ", "x", "U+205F">>,  \* "f:\u2028file format x\u205f"
     <<"f", ":", " ", "f", "i", "l", "e", " ", "f", "o", "r", "m", "a", "t", " ", " ">>}  \* "f: file format \u1680"

SectionProbes ==
    {<<"D", "i", "s", "a", "s", "s", "e", "m", "b", "l", "y", " ", "o", "f", " ", "s", "e", "c", "t", "i", "o", "n", " ", "%", "a", ":">>,  \* "Disassembly of section %a:"
     <<"D", "i", "s", "a", "s", "s", "e", "m", "b", "l", "y", " ", "o", "f", " ", "s", "e", "c", "t", "i", "o", "n", " ", " ", "a", "b", ":">>,  \* "Disassembly of section  ab:"
     <<"D", "i", "s", "a", "s", "s", "e", "m", "b", "l", "y", " ", "o", "f", " ", "s", "e", "c", "t", "i", "o", "n", " ", "a", ".", "B", "1", ":">>,  \* "Disassembly of section a.B1:"
     <<"D", "i", "s", "a", "s", "s", "e", "m", "b", "l", "y", " ", "o", "f", " ", "s", "e", "c", "t", "i", "o", "n", " ", "a", ":">>,  \* "Disassembly of section a:"
     <<"D", "i", "s", "a", "s", "s", "e", "m", "b", "l", "y", " ", "o", "f", " ", "s", "e", "c", "t", "i", "o", "n", " ", "a", "%", ":">>,  \* "Disassembly of section a%:"
     <<"D", "i", "s", "a", "s", "s", "e", "m", "b", "l", "y", " ", "o", "f", " ", "s", "e", "c", "t", "i", "o", "n", " ", "a", " ", "b", ":">>,  \* "Disassembly of section a b:"
     <<"D", "i", "s", "a", "s", "s", "e", "m", "b", "l", "y", " ", "o", "f", " ", "s", "e", "c", "t", "i", "o", "n", " ", "a", "b", ":", "x">>,  \* "Disassembly of section ab:x"
     <<"D", "i", "s", "a", "s", "s", "e", "m", "b", "l", "y", " ", "o", "f", " ", "s", "e", "c", "t", "i", "o", "n", " ", "a", "b", ":", " ">>,  \* "Disassembly of section ab: "
     <<"D", "i", "s", "a", "s", "s", "e", "m", "b", "l", "y", " ", "o", "f", " ", "s", "e", "c", "t", "i", "o", "n", " ", "a", "b">>,  \* "Disassembly of section ab"
     <<"D", "i", "s", "a", "s", "s", "e", "m", "b", "l", "y", " ", "o", "f", " ", "s", "e", "c", "t", "i", "o", "n", " ", ":">>,  \* "Disassembly of section :"
     <<"x", "D", "i", "s", "a", "s", "s", "e", "m", "b", "l", "y", " ", "o", "f", " ", "s", "e", "c", "t", "i", "o", "n", " ", "a", "b", ":">>,  \* "xDisassembly of section ab:"
     <<" ", "D", "i", "s", "a", "s", "s", "e", "m", "b", "l", "y", " ", "o", "f", " ", "s", "e", "c", "t", "i", "o", "n", " ", "a", "b", ":">>,  \* " Disassembly of section ab:"
     <<"g", "i", "b", "b", "e", "r", "i", "s", "h", " ", "o", "f", " ", "s", "e", "c", "t", "i", "o", "n", " ", "a", "b", ":">>}  \* "gibberish of section ab:"

SymbolProbes ==
    {<<"<", "a", " ", "b", ">", ":">>,  \* "<a b>:"
     <<"<", ">", ":">>,  \* "<>:"
     <<"<", "a", ">">>,  \* "<a>"
     <<"x", "<", "a", ">", ":">>,  \* "x<a>:"
     <<"<", "a", ">", ":", "x">>,  \* "<a>:x"
     <<"<", "a", ">", ":", " ">>,  \* "<a>: "
     <<" ", "<", "a", ">", ":">>,  \* " <a>:"
     <<" ", " ", "<", "a", ">", ":">>,  \* "  <a>:"
     <<" ", "x", " ", "<", "a", ">", ":">>,  \* " x <a>:"
     <<" ", "x", " ", "<", "a", ">", ":", " ", "#", " ", "c">>,  \* " x <a>: # c"
     <<"x", " ", "<", "a", ">", ":">>,  \* "x <a>:"
     <<"<", "x", "<", "a", ">", ":">>,  \* "<x<a>:"
     <<"<", "a", ">", ":", "b", ">", ":">>}  \* "<a>:b>:"

InstructionProbes ==
    {<<"a">>,
     <<"a", " ", "b">>,  \* "a b"
     <<" ", "a", " ", "b">>,  \* " a b"
     <<" ", "a", " ", " ", "b", " ", " ">>,  \* " a  b  "
     <<" ", "a", " ", "%", "b">>,  \* " a %b"
     <<" ", "n", "%", "o", "p">>,  \* " n%op"
     <<" ", " ", "n", "%", "o", "p">>,  \* "  n%op"
     <<" ", "A">>,
     <<" ", "a", " ", "b", "#", "c">>,  \* " a b#c"
     <<" ", "a", " ", "#">>,  \* " a #"
     <<" ", "a", " ", "#", " ", "c", " ", "#", " ", "d", " ">>,  \* " a # c # d "
     <<" ", "#", "c">>,  \* " #c"
     <<" ", " ", "#", "c">>,  \* "  #c"
     <<" ", "a", " ", "%", "b", " ", "%", "c">>,  \* " a %b %c"
     <<"", "a", "">>,  \* "\x0ba\x0b"
     <<" ", "a", " ", " ">>,  \* " a \u00a0"
     <<" ", "a", " ">>,  \* " a\u00a0"
     <<" ", "a", " ", "U+2003">>}  \* " a \u2003"

ProbeLines ==
    BlankProbes \cup HeaderProbes \cup SectionProbes \cup SymbolProbes
        \cup InstructionProbes

Lines == CoreLines \cup ProbeLines

(***************************************************************************)
(* from_lines as a state machine: one step per line the iterator yields.   *)
(***************************************************************************)

VARIABLES
    lines,        \* the lines of the input read so far, blank ones included
    pc,           \* "first": no line kept yet; "body": in the loop; "done"
    file_name,    \* disasm.file_name
    file_format,  \* disasm.file_format
    sections,     \* disasm.sections
    ret,          \* [tag |-> "None"], or what from_lines returned
    out           \* [tag |-> "None"], or the text of to_string()

vars == <<lines, pc, file_name, file_format, sections, ret, out>>

None == [tag |-> "None"]
RetOk(fname, fformat, secs) ==
    [tag |-> "Ok", file_name |-> fname, file_format |-> fformat, sections |-> secs]
RetErr(msg) == [tag |-> "Err", msg |-> msg]

Init ==
    /\ lines = <<>>
    /\ pc = "first"
    /\ file_name = <<>>
    /\ file_format = <<>>
    /\ sections = <<>>
    /\ ret = None
    /\ out = None

\* The iterator can yield line: the input is not longer than MaxLines and
\* only its last line may be a probe.
CanRead(line) ==
    /\ pc \in {"first", "body"}
    /\ Len(lines) < MaxLines
    /\ line \in Lines
    /\ \A i \in 1..Len(lines) : lines[i] \in CoreLines

\* The filter drops a blank line.
SkipBlank(line) ==
    /\ CanRead(line)
    /\ is_blank(line)
    /\ lines' = Append(lines, line)
    /\ UNCHANGED <<pc, file_name, file_format, sections, ret, out>>

\* The iterator is exhausted before a line was kept.
EmptyInput ==
    /\ pc = "first"
    /\ pc' = "done"
    /\ ret' = RetErr(MsgEmptyInput)
    /\ UNCHANGED <<lines, file_name, file_format, sections, out>>

\* The first kept line goes to process_first_line.
FirstLine(line) ==
    /\ CanRead(line)
    /\ pc = "first"
    /\ ~is_blank(line)
    /\ lines' = Append(lines, line)
    /\ file_name' = name_after_first_line(file_name, line)
    /\ LET r == process_first_line(line)
       IN  IF r.ok
           THEN /\ file_format' = r.val[2]
                /\ pc' = "body"
                /\ ret' = ret
           ELSE /\ file_format' = file_format
                /\ pc' = "done"
                /\ ret' = RetErr(r.err)
    /\ UNCHANGED <<sections, out>>

\* The loop with the error of a line recorded and the loop going on.
OtherLine_continuing(line) ==
    /\ CanRead(line)
    /\ pc = "body"
    /\ ~is_blank(line)
    /\ lines' = Append(lines, line)
    /\ LET r == process_other_line(sections, line)
       IN  IF r.ok
           THEN /\ sections' = r.val
                /\ ret' = ret
           ELSE /\ sections' = sections
                /\ ret' = RetErr(r.err)
    /\ UNCHANGED <<pc, file_name, file_format, out>>

\* The loop with a failing line leaving a section behind: the error is
\* returned after an unnamed section was pushed to hold the entity.
OtherLine_pushing_first(line) ==
    /\ CanRead(line)
    /\ pc = "body"
    /\ ~is_blank(line)
    /\ lines' = Append(lines, line)
    /\ LET r == process_other_line(sections, line)
       IN  IF r.ok
           THEN /\ sections' = r.val
                /\ pc' = pc
                /\ ret' = ret
           ELSE /\ sections' = IF r.err = MsgUnrecognized(line) THEN sections
                                ELSE Append(sections, Section_new(<<>>))
                /\ pc' = "done"
                /\ ret' = RetErr(r.err)
    /\ UNCHANGED <<file_name, file_format, out>>

\* The loop with sort_sections called after every line.
OtherLine_sorting(line) ==
    /\ CanRead(line)
    /\ pc = "body"
    /\ ~is_blank(line)
    /\ lines' = Append(lines, line)
    /\ LET r == process_other_line(sections, line)
       IN  IF r.ok
           THEN /\ sections' = sort_sections(r.val)
                /\ pc' = pc
                /\ ret' = ret
           ELSE /\ sections' = sections
                /\ pc' = "done"
                /\ ret' = RetErr(r.err)
    /\ UNCHANGED <<file_name, file_format, out>>

\* One turn of the loop: the next kept line goes to process_other_line.
OtherLine(line) ==
    /\ CanRead(line)
    /\ pc = "body"
    /\ ~is_blank(line)
    /\ lines' = Append(lines, line)
    /\ LET r == process_other_line(sections, line)
       IN  IF r.ok
           THEN /\ sections' = r.val
                /\ pc' = pc
                /\ ret' = ret
           ELSE /\ sections' = sections
                /\ pc' = "done"
                /\ ret' = RetErr(r.err)
    /\ UNCHANGED <<file_name, file_format, out>>

\* The iterator is exhausted: sort_sections, and Ok(disasm).
SortAndReturn ==
    /\ pc = "body"
    /\ pc' = "done"
    /\ sections' = sort_sections(sections)
    /\ ret' = RetOk(file_name, file_format, sort_sections(sections))
    /\ UNCHANGED <<lines, file_name, file_format, out>>

\* to_string() on the Disasm that from_lines returned.
Display ==
    /\ ret.tag = "Ok"
    /\ out = None
    /\ out' = [tag |-> "Text", text |-> Disasm_fmt(ret.sections)]
    /\ UNCHANGED <<lines, pc, file_name, file_format, sections, ret>>

Next ==
    \/ \E line \in Lines : SkipBlank(line)
    \/ EmptyInput
    \/ \E line \in Lines : FirstLine(line)
    \/ \E line \in Lines : OtherLine(line)
    \/ SortAndReturn
    \/ Display

Spec == Init /\ [][Next]_vars


(***************************************************************************)
(* What the properties below speak of.                                     *)
(***************************************************************************)

\* The lines the filter kept, in order: kept[1] is the header line and the
\* others are the body lines.
AllWhitespace(line) == \A i \in 1..Len(line) : is_whitespace(line[i])
kept == SelectSeq(lines, LAMBDA l : ~AllWhitespace(l))

\* How process_other_line classifies a body line (a line of whitespace alone
\* never reaches it).
is_section_marker(line) == RE_SECTION(line)[1]
is_symbol_marker(line) == ~RE_SECTION(line)[1] /\ RE_SYMBOL(line)[1]
is_instruction_line(line) ==
    /\ ~AllWhitespace(line)
    /\ ~RE_SECTION(line)[1] /\ ~RE_SYMBOL(line)[1] /\ RE_INSTRUCTION(line)[1]

\* The text of the error for a line no grammar accepts, the line as it is.
UnrecognizedText(line) ==
    <<"U", "n", "r", "e", "c", "o", "g", "n", "i", "z", "e", "d", " ", "f", "o", "r", "m", "a", "t", " ", "f", "o", "r", " ", "t", "h", "e", " ", "f", "o", "l", "l", "o", "w", "i", "n", "g", " ", "l", "i", "n", "e", ":", " ", "'">> \o line \o <<"'">>

\* v is in non-decreasing order of name.
SortedByName(v) ==
    \A i \in 1..Len(v) : \A j \in i..Len(v) : ~cmp_less(v[j].name, v[i].name)

(***************************************************************************)
(* C1.  A symbol marker that is read before any section marker makes       *)
(* from_lines return the error "Attempted to add a symbol without first    *)
(* defining a section"; nothing is returned but the error and nothing is   *)
(* rendered.                                                               *)
(***************************************************************************)
C1_SymbolBeforeSection ==
    \A i \in 2..Len(kept) :
        (/\ is_symbol_marker(kept[i])
         /\ \A j \in 2..(i - 1) : ~is_section_marker(kept[j]))
        => /\ ret = RetErr(<<"A", "t", "t", "e", "m", "p", "t", "e", "d", " ", "t", "o", " ", "a", "d", "d", " ", "a", " ", "s", "y", "m", "b", "o", "l", " ", "w", "i", "t", "h", "o", "u", "t", " ", "f", "i", "r", "s", "t", " ", "d", "e", "f", "i", "n", "i", "n", "g", " ", "a", " ", "s", "e", "c", "t", "i", "o", "n">>)  \* "Attempted to add a symbol without first defining a section"
           /\ out = None

C1_Witness ==
    /\ lines = <<HeaderLine, BlankLine, SymbolA>>
    /\ ret.tag = "Err"
    /\ sections = <<>>

(***************************************************************************)
(* C2.  An instruction line read while the last section has no symbol      *)
(* gives the error "Attempted to add an instruction without first defining *)
(* a symbol" and leaves the sections as they were, whether that section is *)
(* the first one or a later one that follows sections with symbols.        *)
(***************************************************************************)
C2_InstructionBeforeSymbol ==
    [][(/\ pc = "body"
        /\ sections # <<>>
        /\ sections[Len(sections)].symbols = <<>>
        /\ Len(lines') = Len(lines) + 1
        /\ is_instruction_line(lines'[Len(lines')]))
       => /\ ret' = RetErr(<<"A", "t", "t", "e", "m", "p", "t", "e", "d", " ", "t", "o", " ", "a", "d", "d", " ", "a", "n", " ", "i", "n", "s", "t", "r", "u", "c", "t", "i", "o", "n", " ", "w", "i", "t", "h", "o", "u", "t", " ", "f", "i", "r", "s", "t", " ", "d", "e", "f", "i", "n", "i", "n", "g", " ", "a", " ", "s", "y", "m", "b", "o", "l">>)  \* "Attempted to add an instruction without first defining a symbol"
          /\ pc' = "done"
          /\ sections' = sections]_vars

C2_Witness ==
    /\ lines = <<HeaderLine, SectionAa, SymbolA, SectionAb, InstructionB>>
    /\ ret.tag = "Err"
    /\ Len(sections) = 2
    /\ sections[1].symbols # <<>>
    /\ sections[2].symbols = <<>>

(***************************************************************************)
(* C3.  The Disasm that from_lines returns has its sections in             *)
(* non-decreasing order of name and, in every section, the symbols in      *)
(* non-decreasing order of name.                                           *)
(***************************************************************************)
C3_Sorted ==
    ret.tag = "Ok" =>
        /\ SortedByName(ret.sections)
        /\ \A i \in 1..Len(ret.sections) : SortedByName(ret.sections[i].symbols)

C3_Witness ==
    /\ lines = <<HeaderLine, SectionAb, SymbolB, SymbolA, SectionAa>>
    /\ ret.tag = "Ok"
    /\ ret.sections[1].name = <<"a", "a">>
    /\ ret.sections[2].symbols[1].name = <<"<", "a", ">">>  \* "<a>"

(***************************************************************************)
(* C4.  Parsing is fail-fast: no step is taken once from_lines has         *)
(* returned an error, so no line after the first faulty one is read; the   *)
(* step that fails on a line returns the error alone, and when no grammar  *)
(* accepts the line the error text holds the line as it was read, not      *)
(* trimmed.                                                                *)
(***************************************************************************)
C4_FailFast ==
    [][/\ ret.tag # "Err"
       /\ (ret'.tag = "Err" /\ lines' # lines) =>
            /\ lines' = Append(lines, lines'[Len(lines')])
            /\ pc' = "done"
            /\ out' = None
            /\ LET line == lines'[Len(lines')]
               IN  (/\ pc = "body"
                    /\ ~is_section_marker(line)
                    /\ ~is_symbol_marker(line)
                    /\ ~is_instruction_line(line))
                   => ret'.msg = UnrecognizedText(line)]_vars

C4_Witness ==
    /\ lines = <<HeaderLine, SectionAb, SymbolB, <<"D", "i", "s", "a", "s", "s", "e", "m", "b", "l", "y", " ", "o", "f", " ", "s", "e", "c", "t", "i", "o", "n", " ", "a", "b", ":", " ">>>>  \* "Disassembly of section ab: "
    /\ ret = RetErr(UnrecognizedText(<<"D", "i", "s", "a", "s", "s", "e", "m", "b", "l", "y", " ", "o", "f", " ", "s", "e", "c", "t", "i", "o", "n", " ", "a", "b", ":", " ">>))  \* "Disassembly of section ab: "
    /\ pc = "done"
    /\ out = None

(***************************************************************************)
(* C5.  While every line read is empty or whitespace alone, the header     *)
(* parser has not run (no name, no format, the loop not entered), and when *)
(* the input ends there from_lines returns "Error, the file does not       *)
(* contain any text".                                                      *)
(***************************************************************************)
C5_EmptyInput ==
    (\A i \in 1..Len(lines) : AllWhitespace(lines[i])) =>
        /\ pc # "body"
        /\ file_name = <<>>
        /\ file_format = <<>>
        /\ pc = "done" => ret = RetErr(<<"E", "r", "r", "o", "r", ",", " ", "t", "h", "e", " ", "f", "i", "l", "e", " ", "d", "o", "e", "s", " ", "n", "o", "t", " ", "c", "o", "n", "t", "a", "i", "n", " ", "a", "n", "y", " ", "t", "e", "x", "t">>)  \* "Error, the file does not contain any text"

C5_Witness ==
    /\ lines = <<BlankLine, BlankLine, <<" ">>>>  \* "\u1680"
    /\ pc = "done"
    /\ ret.tag = "Err"

(***************************************************************************)
(* C6.  When the first kept line has no ':' or the trimmed text after its  *)
(* first ':' does not start with "file format ", from_lines returns        *)
(* "Incorrect format for the first line" and no body line is processed.    *)
(***************************************************************************)
HeaderIsMalformed(line) ==
    \/ \A i \in 1..Len(line) : line[i] # ":"
    \/ LET colon == CHOOSE i \in 1..Len(line) :
                        line[i] = ":" /\ \A j \in 1..(i - 1) : line[j] # ":"
       IN  ~starts_with(trim(SubSeq(line, colon + 1, Len(line))), <<"f", "i", "l", "e", " ", "f", "o", "r", "m", "a", "t", " ">>)  \* "file format "

C6_MalformedHeader ==
    (kept # <<>> /\ HeaderIsMalformed(kept[1])) =>
        /\ ret = RetErr(<<"I", "n", "c", "o", "r", "r", "e", "c", "t", " ", "f", "o", "r", "m", "a", "t", " ", "f", "o", "r", " ", "t", "h", "e", " ", "f", "i", "r", "s", "t", " ", "l", "i", "n", "e">>)  \* "Incorrect format for the first line"
        /\ Len(kept) = 1
        /\ sections = <<>>
        /\ out = None

C6_Witness ==
    /\ lines = <<BlankLine, <<"f", ":", " ", "f", "i", "l", "e", " ", "f", "o", "r", "m", "a", "t", " ", " ">>>>  \* "f: file format \u1680"
    /\ ret.tag = "Err"
    /\ pc = "done"

(***************************************************************************)
(* C7.  A line that looks like a section marker and is not one by the      *)
(* grammar "Disassembly of section NAME:", NAME a run of alphanumeric      *)
(* characters and periods, is rejected as unrecognized, in every state of  *)
(* the parser.  The code does not do this: the first character of the name *)
(* may be any character.                                                   *)
(***************************************************************************)
Contains(line, text) ==
    \E i \in 1..(Len(line) - Len(text) + 1) :
        SubSeq(line, i, i + Len(text) - 1) = text

WellFormedSectionMarker(line) ==
    LET head == <<"D", "i", "s", "a", "s", "s", "e", "m", "b", "l", "y", " ", "o", "f", " ", "s", "e", "c", "t", "i", "o", "n", " ">>  \* "Disassembly of section "
        name == SubSeq(line, Len(head) + 1, Len(line) - 1)
    IN  /\ Len(line) >= Len(head) + 2
        /\ SubSeq(line, 1, Len(head)) = head
        /\ line[Len(line)] = ":"
        /\ \A i \in 1..Len(name) : IsAlnum(name[i]) \/ name[i] = "."

MalformedSectionMarker(line) ==
    /\ Contains(line, <<" ", "o", "f", " ", "s", "e", "c", "t", "i", "o", "n", " ">>)  \* " of section "
    /\ ~WellFormedSectionMarker(trim(line))

C7_MalformedSectionRejected ==
    \A i \in 2..Len(kept) :
        MalformedSectionMarker(kept[i]) => ret = RetErr(UnrecognizedText(kept[i]))

(***************************************************************************)
(* C8.  As claimed: a line that holds a marker "<name>:" with other text   *)
(* before the '<' or after the ':' is rejected as unrecognized.  That      *)
(* fails for a line that begins with whitespace, which the instruction     *)
(* grammar takes (" x <a>:" is the opcode x with the operands <a>:), and   *)
(* for a line that is itself "<...>:".  As amended: such a line that does  *)
(* not begin with a whitespace character and is not itself of the form     *)
(* "<...>:" is rejected as unrecognized in every state of the parser, so   *)
(* it is never stored as an instruction.                                   *)
(***************************************************************************)
\* "<name>:" stands at positions a..b of line, with a character that is not
\* whitespace before it or after it.
MarkerWithTextAround(line) ==
    \E a \in 1..Len(line) : \E b \in (a + 3)..Len(line) :
        /\ line[a] = "<" /\ line[b - 1] = ">" /\ line[b] = ":"
        /\ \/ \E i \in 1..(a - 1) : ~IsSpace(line[i])
           \/ \E i \in (b + 1)..Len(line) : ~IsSpace(line[i])

C8_Original ==
    \A i \in 2..Len(kept) :
        MarkerWithTextAround(kept[i]) => ret = RetErr(UnrecognizedText(kept[i]))

C8_MarkerWithTextRejected ==
    \A i \in 2..Len(kept) :
        (/\ MarkerWithTextAround(kept[i])
         /\ ~IsSpace(kept[i][1])
         /\ ~(kept[i][1] = "<" /\ ends_with(kept[i], <<">", ":">>)))
        => ret = RetErr(UnrecognizedText(kept[i]))

C8_Witness ==
    /\ lines = <<HeaderLine, SectionAb, SymbolB, <<"<", "a", ">", ":", "x">>>>  \* "<a>:x"
    /\ ret = RetErr(UnrecognizedText(<<"<", "a", ">", ":", "x">>))  \* "<a>:x"
    /\ sections[1].symbols[1].instructions = <<>>

(***************************************************************************)
(* C9.  A kept body line that is neither a section marker nor a symbol     *)
(* marker and whose first character is not whitespace is rejected as       *)
(* unrecognized, also when a section and a symbol are open.                *)
(***************************************************************************)
C9_NoLeadingWhitespaceRejected ==
    \A i \in 2..Len(kept) :
        (/\ ~is_section_marker(kept[i])
         /\ ~is_symbol_marker(kept[i])
         /\ ~IsSpace(kept[i][1]))
        => ret = RetErr(UnrecognizedText(kept[i]))

C9_Witness ==
    /\ lines = <<HeaderLine, SectionAb, SymbolB, InstructionB, <<"a", " ", "b">>>>  \* "a b"
    /\ ret = RetErr(UnrecognizedText(<<"a", " ", "b">>))  \* "a b"
    /\ Len(sections[1].symbols[1].instructions) = 1

(***************************************************************************)
(* C10.  The text of to_string() is, for each section in stored order, the *)
(* line "<name>:", then for each of its symbols in stored order the line   *)
(* "<name>:" after 4 spaces, then for each instruction of the symbol in    *)
(* stored order the opcode alone after 8 spaces; nothing else.             *)
(***************************************************************************)
RECURSIVE Flatten(_)
Flatten(ss) == IF ss = <<>> THEN <<>> ELSE ss[1] \o Flatten(Tail(ss))

ExpectedSymbolText(symbol) ==
    <<" ", " ", " ", " ">> \o symbol.name \o <<":", "\n">> \o
    Flatten([k \in 1..Len(symbol.instructions) |->
                <<" ", " ", " ", " ", " ", " ", " ", " ">> \o symbol.instructions[k].opcode \o <<"\n">>])

ExpectedSectionText(section) ==
    section.name \o <<":", "\n">> \o  \* ":\n"
    Flatten([j \in 1..Len(section.symbols) |-> ExpectedSymbolText(section.symbols[j])])

C10_Rendering ==
    out.tag = "Text" =>
        out.text = Flatten([i \in 1..Len(ret.sections) |->
                               ExpectedSectionText(ret.sections[i])])

C10_Witness ==
    /\ lines = <<HeaderLine, SectionAb, SymbolB, InstructionB, InstructionA>>
    /\ out.tag = "Text"
    /\ out.text = <<"a", "b", ":", "\n", " ", " ", " ", " ", "<", "b", ">", ":", "\n", " ", " ", " ", " ", " ", " ", " ", " ", "b", "\n", " ", " ", " ", " ", " ", " ", " ", " ", "a", "\n">>  \* "ab:\n    <b>:\n        b\n        a\n"

(***************************************************************************)
(* C11.  A line that is empty or whitespace alone changes nothing but the  *)
(* position in the input: the parser's position, the Disasm under          *)
(* construction and the result are as they were, wherever the line stands, *)
(* so the outcome of from_lines is that of the input without its blank     *)
(* lines.                                                                  *)
(***************************************************************************)
C11_BlankLinesIgnored ==
    [][(/\ Len(lines') = Len(lines) + 1
        /\ AllWhitespace(lines'[Len(lines')]))
       => UNCHANGED <<pc, file_name, file_format, sections, ret, out>>]_vars

C11_Witness ==
    /\ lines = <<BlankLine, HeaderLine, BlankLine, SectionAb, <<" ", "\t", "U+2003">>>>  \* " \t\u2003"
    /\ ret.tag = "Ok"
    /\ Len(ret.sections) = 1

(***************************************************************************)
(* C12.  The sort keeps everything and is stable: for every name, the      *)
(* sections of that name are the same ones in the same order before and    *)
(* after sort_sections (each with its symbols sorted), and inside every    *)
(* section, for every name, the symbols of that name are the same sequence *)
(* before and after.                                                       *)
(***************************************************************************)
WithName(v, name) == SelectSeq(v, LAMBDA x : x.name = name)

NamesOf(v) == {v[i].name : i \in 1..Len(v)}

\* after holds the elements of before; those of equal name in the same order
StableSymbols(before, after) ==
    /\ Len(after) = Len(before)
    /\ \A name \in NamesOf(before) \cup NamesOf(after) :
           WithName(after, name) = WithName(before, name)

StableSections(before, after) ==
    /\ Len(after) = Len(before)
    /\ \A name \in NamesOf(before) \cup NamesOf(after) :
           LET b == WithName(before, name)
               a == WithName(after, name)
           IN  /\ Len(a) = Len(b)
               /\ \A k \in 1..Len(a) : StableSymbols(b[k].symbols, a[k].symbols)

C12_SortStable ==
    [][(pc = "body" /\ ret'.tag = "Ok")
       => /\ StableSections(sections, sections')
          /\ ret'.sections = sections']_vars

C12_Witness ==
    /\ lines = <<HeaderLine, SectionAb, SymbolA, SectionAb, SectionAa>>
    /\ ret.tag = "Ok"
    /\ ret.sections[2].name = <<"a", "b">>
    /\ ret.sections[2].symbols # <<>>
    /\ ret.sections[3].name = <<"a", "b">>
    /\ ret.sections[3].symbols = <<>>

(***************************************************************************)
(* C13.  Sorting is idempotent: sort_sections applied to the sections that *)
(* from_lines returned gives the same sections.                            *)
(***************************************************************************)
C13_SortIdempotent ==
    ret.tag = "Ok" => sort_sections(ret.sections) = ret.sections

C13_Witness ==
    /\ lines = <<HeaderLine, SectionAb, SymbolB, SectionAb, SectionAa>>
    /\ ret.tag = "Ok"
    /\ ret.sections[1].name = <<"a", "a">>
    /\ ret.sections[3].symbols = <<>>

(***************************************************************************)
(* C14.  The sort is the last thing from_lines does and it does it once:   *)
(* while lines are processed a step only appends at the tail of the tree   *)
(* (a section, a symbol of the last section, an instruction of its last    *)
(* symbol), a step that returns an error leaves the sections alone, the    *)
(* step that returns Ok reads no line and sorts, and nothing changes the   *)
(* sections afterwards.                                                    *)
(***************************************************************************)
IsAppend(before, after) ==
    Len(after) = Len(before) + 1 /\ SubSeq(after, 1, Len(before)) = before

\* after is before, or before with one entity appended at its tail
TailGrowth(before, after) ==
    \/ after = before
    \/ IsAppend(before, after)
    \/ /\ before # <<>>
       /\ Len(after) = Len(before)
       /\ \A i \in 1..(Len(before) - 1) : after[i] = before[i]
       /\ LET b == before[Len(before)]
              a == after[Len(after)]
          IN  /\ a.name = b.name
              /\ \/ IsAppend(b.symbols, a.symbols)
                 \/ /\ b.symbols # <<>>
                    /\ Len(a.symbols) = Len(b.symbols)
                    /\ \A j \in 1..(Len(b.symbols) - 1) : a.symbols[j] = b.symbols[j]
                    /\ a.symbols[Len(a.symbols)].name = b.symbols[Len(b.symbols)].name
                    /\ IsAppend(b.symbols[Len(b.symbols)].instructions,
                                a.symbols[Len(a.symbols)].instructions)

C14_SortOnceAtEnd ==
    [][/\ pc' # "done" => TailGrowth(sections, sections')
       /\ ret'.tag = "Err" => sections' = sections
       /\ pc = "done" => sections' = sections
       /\ (pc = "body" /\ ret'.tag = "Ok") =>
            /\ lines' = lines
            /\ pc' = "done"
            /\ SortedByName(sections')]_vars

C14_Witness ==
    /\ lines = <<HeaderLine, SectionAb, SymbolB, SymbolA>>
    /\ pc = "body"
    /\ sections[1].symbols[1].name = <<"<", "b", ">">>  \* "<b>"
    /\ sections[1].symbols[2].name = <<"<", "a", ">">>  \* "<a>"

(***************************************************************************)
(* C15.  As claimed: once the header line is accepted, file_name is the    *)
(* text before the first ':' as it stands, and file_format is the text     *)
(* after the prefix "file format " with the whitespace at both its ends    *)
(* removed.  The code keeps the whitespace that follows the prefix.        *)
(***************************************************************************)
TextBeforeColon(line) == SubSeq(line, 1, find(line, ":") - 1)

TextAfterPrefix(line) ==
    LET leftover == trim(From(line, find(line, ":") + 1))
    IN  From(leftover, Len(<<"f", "i", "l", "e", " ", "f", "o", "r", "m", "a", "t", " ">>) + 1)  \* "file format "

C15_HeaderFields ==
    (kept # <<>> /\ pc \in {"body", "done"} /\ ~HeaderIsMalformed(kept[1])) =>
        /\ file_name = TextBeforeColon(kept[1])
        /\ file_format = trim(TextAfterPrefix(kept[1]))

(***************************************************************************)
(* C16.  As claimed: a body line whose trimmed text is "Disassembly of     *)
(* section NAME:", NAME one or more alphanumeric characters and periods,   *)
(* never fails and appends one empty section named NAME.  The code rejects *)
(* a NAME of one character and a line with whitespace around the marker.   *)
(***************************************************************************)
SectionNameOf(line) ==
    SubSeq(trim(line), Len(<<"D", "i", "s", "a", "s", "s", "e", "m", "b", "l", "y", " ", "o", "f", " ", "s", "e", "c", "t", "i", "o", "n", " ">>) + 1, Len(trim(line)) - 1)  \* "Disassembly of section "

C16_SectionMarker ==
    [][(/\ pc = "body"
        /\ Len(lines') = Len(lines) + 1
        /\ WellFormedSectionMarker(trim(lines'[Len(lines')])))
       => /\ ret' = ret
          /\ sections' = Append(sections, Section_new(SectionNameOf(lines'[Len(lines')])))]_vars

(***************************************************************************)
(* C17.  As claimed: with a section open, a body line whose trimmed text   *)
(* begins with '<', ends with ">:" and has a character between the         *)
(* brackets appends to the last section one empty symbol named by the      *)
(* trimmed text without its final colon.  The code does not trim: with     *)
(* whitespace before the '<' the line is unrecognized or an instruction,   *)
(* with whitespace after the ':' it is unrecognized.                       *)
(***************************************************************************)
BracketedSymbolMarker(line) ==
    LET text == trim(line)
    IN  /\ Len(text) >= 4
        /\ starts_with(text, <<"<">>)
        /\ ends_with(text, <<">", ":">>)
        /\ ~WellFormedSectionMarker(text)

BracketedName(line) == SubSeq(trim(line), 1, Len(trim(line)) - 1)

C17_SymbolMarker ==
    [][(/\ pc = "body"
        /\ sections # <<>>
        /\ Len(lines') = Len(lines) + 1
        /\ BracketedSymbolMarker(lines'[Len(lines')]))
       => /\ ret' = ret
          /\ sections' = [sections EXCEPT ![Len(sections)] =
                 Section_add_symbol(@, Symbol_new_name_only(BracketedName(lines'[Len(lines')])))]]_vars

(***************************************************************************)
(* The instruction that the last line read has stored: the last one of the *)
(* last symbol of the last section, while the loop is running.             *)
(***************************************************************************)
LastLineStored ==
    /\ pc = "body"
    /\ Len(kept) >= 2
    /\ is_instruction_line(kept[Len(kept)])

LastInstruction ==
    LET section == sections[Len(sections)]
        symbol == section.symbols[Len(section.symbols)]
    IN  symbol.instructions[Len(symbol.instructions)]

(***************************************************************************)
(* C18.  As claimed: the opcode and the operands stored for an accepted    *)
(* instruction line are those of the split rule of Instruction::from: the  *)
(* text left of the comment is trimmed and split at its last space, the    *)
(* operands are the last token.  The regular expression takes every run of *)
(* lowercase letters, digits and whitespace as opcode.                     *)
(***************************************************************************)
C18_SplitRule ==
    LastLineStored =>
        /\ LastInstruction.opcode = Instruction_from(kept[Len(kept)]).opcode
        /\ LastInstruction.operands = Instruction_from(kept[Len(kept)]).operands

(***************************************************************************)
(* C19.  As claimed: a body line that starts with whitespace and whose     *)
(* first token holds a character other than a lowercase letter or a digit  *)
(* is unrecognized, however much whitespace leads it.  (Lines whose first  *)
(* token opens a comment, and lines that are a marker once trimmed, are    *)
(* left out.)  With two or more whitespace characters in front the code    *)
(* takes the token as the operands of an empty opcode.                     *)
(***************************************************************************)
FirstToken(line) ==
    LET text == From(line, leading_spaces(line) + 1)
    IN  SubSeq(text, 1, leading_nonspaces(text))

BadOpcodeLine(line) ==
    /\ line # <<>> /\ IsSpace(line[1])
    /\ \E i \in 1..Len(FirstToken(line)) :
           ~IsLower(FirstToken(line)[i]) /\ ~IsDigit(FirstToken(line)[i])
    /\ FirstToken(line)[1] # "#"
    /\ ~WellFormedSectionMarker(trim(line))
    /\ ~BracketedSymbolMarker(line)

C19_BadOpcodeRejected ==
    \A i \in 2..Len(kept) :
        BadOpcodeLine(kept[i]) => ret = RetErr(UnrecognizedText(kept[i]))

(***************************************************************************)
(* C20.  As claimed: the comment stored for an accepted instruction line   *)
(* is the text after the first '#' of the line, trimmed (empty if the line *)
(* has no '#'), and neither the opcode nor the operands hold a '#'.  The   *)
(* code starts a comment only at a '#' that follows whitespace.            *)
(***************************************************************************)
TextAfterHash(line) ==
    IF find(line, "#") = 0 THEN <<>> ELSE trim(From(line, find(line, "#") + 1))

C20_Comment ==
    LastLineStored =>
        /\ LastInstruction.comment = TextAfterHash(kept[Len(kept)])
        /\ find(LastInstruction.opcode, "#") = 0
        /\ find(LastInstruction.operands, "#") = 0

(***************************************************************************)
(* The tree the lines read describe, by position: a section for every      *)
(* section marker, holding a symbol for every symbol marker up to the next *)
(* section marker, holding an instruction for every instruction line up to *)
(* the next marker of either kind, all in the order of the lines.          *)
(***************************************************************************)
RECURSIVE Ascending(_)
Ascending(S) ==
    IF S = {} THEN <<>>
    ELSE LET least == CHOOSE x \in S : \A y \in S : x <= y
         IN  <<least>> \o Ascending(S \ {least})

SectionLines == {i \in 2..Len(kept) : is_section_marker(kept[i])}
SymbolLines == {i \in 2..Len(kept) : is_symbol_marker(kept[i])}
InstructionLines == {i \in 2..Len(kept) : is_instruction_line(kept[i])}

\* the first line after line i that is in Markers, or the end of the input
NextOf(Markers, i) ==
    LET later == {j \in Markers : j > i}
    IN  IF later = {} THEN Len(kept) + 1
        ELSE CHOOSE x \in later : \A y \in later : x <= y

InstructionOfLine(i) ==
    LET cap == RE_INSTRUCTION(kept[i])
    IN  Instruction_new(trim(cap[2]), trim(cap[3]), trim(cap[4]))

SymbolOfLine(i) ==
    LET between == Ascending({j \in InstructionLines :
                                 i < j /\ j < NextOf(SectionLines \cup SymbolLines, i)})
    IN  [addr |-> <<>>,
         name |-> RE_SYMBOL(kept[i])[2],
         instructions |-> [k \in 1..Len(between) |-> InstructionOfLine(between[k])]]

SectionOfLine(i) ==
    LET between == Ascending({j \in SymbolLines : i < j /\ j < NextOf(SectionLines, i)})
    IN  [name |-> RE_SECTION(kept[i])[2],
         symbols |-> [k \in 1..Len(between) |-> SymbolOfLine(between[k])]]

TreeOfLines ==
    LET markers == Ascending(SectionLines)
    IN  [k \in 1..Len(markers) |-> SectionOfLine(markers[k])]

(***************************************************************************)
(* C21.  While the lines are processed without error the sections are the  *)
(* tree the lines describe: every instruction is in the symbol whose       *)
(* marker is the last one before its line, in the order of the lines.  The *)
(* Disasm returned is that tree with sections and symbols in sorted order, *)
(* every symbol with the same instructions in the same order.              *)
(***************************************************************************)
C21_InstructionsStay ==
    /\ (pc = "body" /\ ret.tag = "None") => sections = TreeOfLines
    /\ ret.tag = "Ok" => StableSections(TreeOfLines, ret.sections)

C21_Witness ==
    /\ lines = <<HeaderLine, SectionAb, SymbolB, InstructionB, SymbolA>>
    /\ ret.tag = "Ok"
    /\ ret.sections[1].symbols[1].name = <<"<", "a", ">">>  \* "<a>"
    /\ ret.sections[1].symbols[1].instructions = <<>>
    /\ Len(ret.sections[1].symbols[2].instructions) = 1

(***************************************************************************)
(* C22.  An instruction line read before any section marker makes          *)
(* from_lines return "Attempted to add an instruction without first        *)
(* defining a section", which is not the text returned when the last       *)
(* section has no symbol.                                                  *)
(***************************************************************************)
C22_InstructionBeforeSection ==
    \A i \in 2..Len(kept) :
        (/\ is_instruction_line(kept[i])
         /\ \A j \in 2..(i - 1) : ~is_section_marker(kept[j]))
        => /\ ret = RetErr(<<"A", "t", "t", "e", "m", "p", "t", "e", "d", " ", "t", "o", " ", "a", "d", "d", " ", "a", "n", " ", "i", "n", "s", "t", "r", "u", "c", "t", "i", "o", "n", " ", "w", "i", "t", "h", "o", "u", "t", " ", "f", "i", "r", "s", "t", " ", "d", "e", "f", "i", "n", "i", "n", "g", " ", "a", " ", "s", "e", "c", "t", "i", "o", "n">>)  \* "Attempted to add an instruction without first defining a section"
           /\ ret # RetErr(<<"A", "t", "t", "e", "m", "p", "t", "e", "d", " ", "t", "o", " ", "a", "d", "d", " ", "a", "n", " ", "i", "n", "s", "t", "r", "u", "c", "t", "i", "o", "n", " ", "w", "i", "t", "h", "o", "u", "t", " ", "f", "i", "r", "s", "t", " ", "d", "e", "f", "i", "n", "i", "n", "g", " ", "a", " ", "s", "y", "m", "b", "o", "l">>)  \* "Attempted to add an instruction without first defining a symbol"
           /\ sections = <<>>

C22_Witness ==
    /\ lines = <<HeaderLine, InstructionA>>
    /\ ret.tag = "Err"
    /\ pc = "done"

(***************************************************************************)
(* C23.  The number of sections, symbols and instructions is the number of *)
(* body lines processed without error: one entity for each of them, none   *)
(* removed, during the parse and in the Disasm returned after the sort.    *)
(***************************************************************************)
RECURSIVE Sum(_)
Sum(v) == IF v = <<>> THEN 0 ELSE v[1] + Sum(Tail(v))

CountSymbol(symbol) == 1 + Len(symbol.instructions)

CountSection(section) ==
    1 + Sum([j \in 1..Len(section.symbols) |-> CountSymbol(section.symbols[j])])

CountEntities(secs) == Sum([i \in 1..Len(secs) |-> CountSection(secs[i])])

\* the body lines read that did not fail: all of them, but the last one when
\* an error was returned for it
BodyLinesProcessed ==
    IF kept = <<>> THEN 0
    ELSE IF ret.tag = "Err" /\ Len(kept) >= 2 THEN Len(kept) - 2
    ELSE Len(kept) - 1

C23_OneEntityPerLine ==
    /\ CountEntities(sections) = BodyLinesProcessed
    /\ ret.tag = "Ok" => CountEntities(ret.sections) = BodyLinesProcessed

C23_Witness ==
    /\ lines = <<HeaderLine, SectionAb, SectionAb, SymbolA, InstructionB>>
    /\ ret.tag = "Ok"
    /\ CountEntities(ret.sections) = 4

(***************************************************************************)
(* C24.  A step that processes a body line leaves file_name and            *)
(* file_format alone and changes the tail of the tree only: a section      *)
(* marker keeps every existing section, a symbol marker changes nothing    *)
(* but the symbol list of the last section, where it keeps the existing    *)
(* symbols, and an instruction line changes nothing but the instruction    *)
(* list of the last symbol of the last section, where it keeps the         *)
(* existing instructions.                                                  *)
(***************************************************************************)
IsPrefix(before, after) ==
    Len(before) <= Len(after) /\ SubSeq(after, 1, Len(before)) = before

SectionFrame(before, after) == IsPrefix(before, after)

SymbolFrame(before, after) ==
    \/ after = before
    \/ /\ before # <<>>
       /\ after = [before EXCEPT ![Len(before)].symbols = after[Len(before)].symbols]
       /\ IsPrefix(before[Len(before)].symbols, after[Len(before)].symbols)

InstructionFrame(before, after) ==
    \/ after = before
    \/ /\ before # <<>>
       /\ before[Len(before)].symbols # <<>>
       /\ LET n == Len(before)
              m == Len(before[n].symbols)
          IN  /\ Len(after) = n
              /\ Len(after[n].symbols) = m
              /\ after = [before EXCEPT ![n].symbols[m].instructions =
                                            after[n].symbols[m].instructions]
              /\ IsPrefix(before[n].symbols[m].instructions,
                          after[n].symbols[m].instructions)

C24_Frame ==
    [][(pc = "body" /\ Len(lines') = Len(lines) + 1)
       => LET line == lines'[Len(lines')]
          IN  /\ file_name' = file_name
              /\ file_format' = file_format
              /\ is_section_marker(line) => SectionFrame(sections, sections')
              /\ is_symbol_marker(line) => SymbolFrame(sections, sections')
              /\ is_instruction_line(line) => InstructionFrame(sections, sections')]_vars

C24_Witness ==
    /\ lines = <<HeaderLine, SectionAb, SymbolA, InstructionB, SectionAa>>
    /\ pc = "body"
    /\ Len(sections[1].symbols[1].instructions) = 1
    /\ sections[2] = [name |-> <<"a", "a">>, symbols |-> <<>>]

(***************************************************************************)
(* C25.  A step on which add_symbol or add_instruction fails, for lack of  *)
(* a section or of a symbol in the last section, returns the error and     *)
(* leaves the sections, with their symbols and instructions, as they were. *)
(***************************************************************************)
AddFailure(result) ==
    \/ result = RetErr(<<"A", "t", "t", "e", "m", "p", "t", "e", "d", " ", "t", "o", " ", "a", "d", "d", " ", "a", " ", "s", "y", "m", "b", "o", "l", " ", "w", "i", "t", "h", "o", "u", "t", " ", "f", "i", "r", "s", "t", " ", "d", "e", "f", "i", "n", "i", "n", "g", " ", "a", " ", "s", "e", "c", "t", "i", "o", "n">>)  \* "Attempted to add a symbol without first defining a section"
    \/ result = RetErr(<<"A", "t", "t", "e", "m", "p", "t", "e", "d", " ", "t", "o", " ", "a", "d", "d", " ", "a", "n", " ", "i", "n", "s", "t", "r", "u", "c", "t", "i", "o", "n", " ", "w", "i", "t", "h", "o", "u", "t", " ", "f", "i", "r", "s", "t", " ", "d", "e", "f", "i", "n", "i", "n", "g", " ", "a", " ", "s", "e", "c", "t", "i", "o", "n">>)  \* "Attempted to add an instruction without first defining a section"
    \/ result = RetErr(<<"A", "t", "t", "e", "m", "p", "t", "e", "d", " ", "t", "o", " ", "a", "d", "d", " ", "a", "n", " ", "i", "n", "s", "t", "r", "u", "c", "t", "i", "o", "n", " ", "w", "i", "t", "h", "o", "u", "t", " ", "f", "i", "r", "s", "t", " ", "d", "e", "f", "i", "n", "i", "n", "g", " ", "a", " ", "s", "y", "m", "b", "o", "l">>)  \* "Attempted to add an instruction without first defining a symbol"

C25_FailingAddChangesNothing ==
    [][(ret.tag = "None" /\ AddFailure(ret')) => sections' = sections]_vars

C25_Witness ==
    /\ lines = <<HeaderLine, SectionAa, SymbolA, SectionAb, InstructionA>>
    /\ AddFailure(ret)
    /\ Len(sections) = 2
    /\ sections[1].symbols # <<>>

====
